---------------------------- MODULE Spec2Model ----------------------------
(***************************************************************************)
(* Model of the CV AI service: the vector store wrapper                    *)
(* (package/app/services/vectorstore_service.py) and the generation        *)
(* operations of AIService (package/app/services/ai_service.py).           *)
(*                                                                         *)
(* Texts are sequences of one-character strings, indexed from 0 as in      *)
(* Python (position p of the text is s[p + 1]).  Model responses are       *)
(* sequences of lexemes (see the response section below).                  *)
(***************************************************************************)
EXTENDS Integers, Sequences, FiniteSets, TLC

(***************************************************************************)
(* Program constants and bounds                                            *)
(***************************************************************************)
\* defaults of the chunk_size and chunk_overlap parameters of _split_text
DefaultChunkSize == 1000

DefaultChunkOverlap == 200

\* longest experience list handed to recommend_template
MaxExperience == 3

\* default of the k parameter of retrieve_documents
DefaultK == 5

\* longest text handed to _split_text when it is checked on its own
MaxTextLen == 6

\* validate_job_description: max_length of the sanitiser, shortest accepted text
MaxJobDescriptionLength == 50000

MinJobDescriptionLength == 10

\* validate_cv_text: max_length of the sanitiser, shortest accepted text
MaxCvTextLength == 100000

MinCvTextLength == 50

(***************************************************************************)
(* Python string primitives                                                *)
(***************************************************************************)
Max(a, b) == IF a >= b THEN a ELSE b

Min(a, b) == IF a <= b THEN a ELSE b

Whitespace == {" ", "\n"}

\* Python's normalisation of a slice bound against a sequence of length n
SliceIndex(i, n) == IF i < 0 THEN Max(i + n, 0) ELSE Min(i, n)

\* s[lo:hi]
Slice(s, lo, hi) ==
    LET a == SliceIndex(lo, Len(s))
        b == SliceIndex(hi, Len(s))
    IN  IF a >= b THEN << >> ELSE SubSeq(s, a + 1, b)

\* s.rfind(ch, lo, hi): the highest 0-based position in s[lo:hi] holding ch, or -1
RFind(s, ch, lo, hi) ==
    LET a == SliceIndex(lo, Len(s))
        b == SliceIndex(hi, Len(s))
        hits == {p \in a .. (b - 1) : s[p + 1] = ch}
    IN  IF hits = {} THEN -1 ELSE CHOOSE p \in hits : \A q \in hits : q <= p

RECURSIVE LStrip(_)
LStrip(s) == IF s # << >> /\ Head(s) \in Whitespace THEN LStrip(Tail(s)) ELSE s

RECURSIVE RStrip(_)
RStrip(s) ==
    IF s # << >> /\ s[Len(s)] \in Whitespace THEN RStrip(SubSeq(s, 1, Len(s) - 1)) ELSE s

\* s.strip()
Strip(s) == RStrip(LStrip(s))

\* n copies of the one-character text c
Rep(c, n) == [p \in 1 .. n |-> c]

(***************************************************************************)
(* VectorstoreService._split_text                                          *)
(***************************************************************************)
\* One pass of the while loop from the window start `start`: the window end
\* after the sentence-boundary adjustment.
WindowEnd(text, start, chunk_size) ==
    LET end0 == start + chunk_size
        last_period == RFind(text, ".", start, end0)
        last_newline == RFind(text, "\n", start, end0)
        split_point == Max(last_period, last_newline)
    IN  IF end0 < Len(text) /\ split_point > start THEN split_point + 1 ELSE end0

\* The while loop.  `seen` is the set of window starts already visited: the
\* loop's only state is `start`, so a repeated start means the loop never
\* ends (returns = FALSE; the chunks of the first lap are reported).
RECURSIVE SplitLoop(_, _, _, _, _, _)
SplitLoop(text, chunk_size, chunk_overlap, start, chunks, seen) ==
    IF ~(start < Len(text)) THEN [returns |-> TRUE, chunks |-> chunks]
    ELSE IF start \in seen THEN [returns |-> FALSE, chunks |-> chunks]
    ELSE LET end == WindowEnd(text, start, chunk_size)
             chunks2 == Append(chunks, Strip(Slice(text, start, end)))
             start2 == end - chunk_overlap
         IN  IF start2 >= Len(text) THEN [returns |-> TRUE, chunks |-> chunks2]
             ELSE SplitLoop(text, chunk_size, chunk_overlap, start2, chunks2,
                            seen \cup {start})

\* a splitter that trims the text it returns whole
_split_text_StripsShort(text, chunk_size, chunk_overlap) ==
    IF Len(text) <= chunk_size THEN [returns |-> TRUE, chunks |-> <<Strip(text)>>]
    ELSE SplitLoop(text, chunk_size, chunk_overlap, 0, << >>, {})

_split_text(text, chunk_size, chunk_overlap) ==
    IF Len(text) <= chunk_size THEN [returns |-> TRUE, chunks |-> <<text>>]
    ELSE SplitLoop(text, chunk_size, chunk_overlap, 0, << >>, {})

(***************************************************************************)
(* State                                                                   *)
(***************************************************************************)
VARIABLES
    index_ready,   \* VectorstoreService.index is set (Pinecone initialised)
    index,         \* the shared external index: vector id -> stored vector
    stale,         \* history: ids whose stored vector predates the last clear call
    phase,         \* history: "cleared" after a clear call, "reindexed" after the
                   \* add_documents call that follows it, "other" otherwise
    vs,            \* the vector store call that completed last
    ai,            \* the AIService call being served, or Idle
    split,         \* a call of _split_text on its own: arguments and result
    sess,          \* the callers sharing the index: position in clear/index/retrieve
    tailor         \* the answer to the last POST /cv/tailor request

vars == <<index_ready, index, stale, phase, vs, ai, split, sess, tailor>>

\* what the vector store and AIService operations leave alone
callerVars == <<split, sess, tailor>>

storeVars == <<index_ready, index, stale, phase, vs>>

None == "None"

(***************************************************************************)
(* Documents handed to add_documents.  Each uses its own letter, so the    *)
(* text of a chunk tells which document it was cut from.                   *)
(***************************************************************************)
DocA == Rep("a", DefaultChunkSize)

DocB == Rep("b", DefaultChunkSize + 1)

DocC == Rep("c", DefaultChunkSize - 2) \o <<".", "c", "c">>

\* the only sentence end of the first window lies inside its overlap region
DocH == <<"h", ".">> \o Rep("h", DefaultChunkSize + 1)

Docs == {DocA, DocB, DocC, DocH}

Queries == {<<"q">>}

\* the `texts` arguments: one document, or two documents in one call
TextLists == {<<d>> : d \in Docs} \cup {<<DocA, DocB>>, <<DocC, DocA>>}

EmbeddingErrors == {"embedding unavailable"}

(***************************************************************************)
(* VectorstoreService._get_embedding: the provider's vector for a text is  *)
(* opaque; a failure of the provider is re-raised unchanged.               *)
(***************************************************************************)
_get_embedding(text) == <<"embedding", text>>

\* f"doc_{i}_chunk_{j}"
VectorId(i, j) == <<"doc", i, "chunk", j>>

\* The vectors add_documents builds for text number i (0-based) once it is split
ChunkVectors(i, chunks) ==
    [n \in 1 .. Len(chunks) |->
        [id |-> VectorId(i, n - 1),
         values |-> _get_embedding(chunks[n]),
         metadata |-> [text |-> chunks[n], chunk_index |-> n - 1,
                       total_chunks |-> Len(chunks)]]]

\* The loop of add_documents over texts[i + 1 ..]: the vectors in the order
\* their embeddings are requested, up to the first text whose split does not
\* return (hung = TRUE).
RECURSIVE BuildVectors(_, _, _)
BuildVectors(texts, i, acc) ==
    IF i >= Len(texts) THEN [hung |-> FALSE, vectors |-> acc]
    ELSE LET cut == _split_text(texts[i + 1], DefaultChunkSize, DefaultChunkOverlap)
         IN  IF ~cut.returns THEN [hung |-> TRUE, vectors |-> acc]
             ELSE BuildVectors(texts, i + 1, acc \o ChunkVectors(i, cut.chunks))

\* an upsert that keeps the vector already stored under an id
Upsert_KeepsFirst(idx, vectors) ==
    LET new == {vectors[n].id : n \in 1 .. Len(vectors)}
    IN  [id \in DOMAIN idx \cup new |->
            IF id \in DOMAIN idx THEN idx[id]
            ELSE vectors[CHOOSE n \in 1 .. Len(vectors) : vectors[n].id = id]]

\* index.upsert(vectors): insert, or overwrite the vector of the same id
RECURSIVE Upsert(_, _)
Upsert(idx, vectors) ==
    IF vectors = << >> THEN idx
    ELSE LET v == Head(vectors)
             put == [id \in DOMAIN idx \cup {v.id} |-> IF id = v.id THEN v ELSE idx[id]]
         IN  Upsert(put, Tail(vectors))

Ids(vectors) == {vectors[n].id : n \in 1 .. Len(vectors)}

(***************************************************************************)
(* Model responses.  A response text is a sequence of lexemes: the opening *)
(* fence with its language tag (7 characters), the bare fence (3           *)
(* characters), a newline, a run of prose, or the text of a JSON object.   *)
(* Slicing by characters is exact on these: [7:] is only applied to a text *)
(* that starts with the tagged fence, [:-3] to one that ends with a fence. *)
(***************************************************************************)
\* <fence> stands for the three backquotes of a markdown code fence
FenceJson == "<fence>json"

Fence == "<fence>"

JsonObjects == {"{cv_full}", "{cv_partial}", "{evaluation}", "{recommendation}"}

\* what the provider puts before, as, and after the body of its answer
Prefixes == {<< >>, <<"\n">>, <<FenceJson>>, <<FenceJson, "\n">>, <<Fence>>, <<"prose">>}

Bodies == {<< >>, <<"prose">>, <<"{cv_partial}", "prose">>} \cup {<<o>> : o \in JsonObjects}

Suffixes == {<< >>, <<"\n">>, <<Fence>>, <<"\n", Fence>>, <<Fence, "\n">>, <<"prose">>}

Responses == {p \o b \o t : p \in Prefixes, b \in Bodies, t \in Suffixes}

ProviderErrors == {"API Error"}

\* what one chat.completions.create call can do: raise, answer with a text,
\* or answer with a message whose content is None
Outcomes ==
    [kind : {"error"}, error : ProviderErrors, content : {<< >>}]
        \cup [kind : {"response"}, error : {None}, content : Responses]
        \cup [kind : {"no_content"}, error : {None}, content : {<< >>}]

\* the value json.loads gives for the text of each JSON object
Decode(lexeme) ==
    CASE lexeme = "{cv_full}" ->
            [personal |-> [name |-> "John Doe"], professional_summary |-> "summary",
             experience |-> << >>, education |-> << >>, projects |-> << >>,
             skills |-> [technical |-> <<"Python">>, soft |-> << >>, languages |-> << >>],
             licenses_certifications |-> << >>]
      [] lexeme = "{cv_partial}" -> [personal |-> [name |-> "John Doe"]]
      [] lexeme = "{evaluation}" ->
            [score |-> 8, strengths |-> "s", improvements |-> "i",
             recommendation |-> "Hire", reasoning |-> "r"]
      [] lexeme = "{recommendation}" ->
            [recommended_template |-> "functional", confidence_score |-> 90,
             reasoning |-> "r", format_explanation |-> "f", alternatives |-> << >>]

JSONDecodeError == "Expecting value"

AttributeError == "'NoneType' object has no attribute 'strip'"

\* json.loads(content): surrounding whitespace is accepted, anything else
\* than exactly one JSON value is a JSONDecodeError
JsonLoads(content) ==
    LET t == Strip(content)
    IN  IF Len(t) = 1 /\ t[1] \in JsonObjects
        THEN [ok |-> TRUE, value |-> Decode(t[1])]
        ELSE [ok |-> FALSE, value |-> None]

\* if content.startswith(<fence>json): content = content[7:]
\* if content.endswith(<fence>): content = content[:-3]
StripFences(content) ==
    LET c1 == IF content # << >> /\ Head(content) = FenceJson THEN Tail(content) ELSE content
    IN  IF c1 # << >> /\ c1[Len(c1)] = Fence THEN SubSeq(c1, 1, Len(c1) - 1) ELSE c1

(***************************************************************************)
(* Results of an AIService call.  An error message is the sequence of the  *)
(* pieces the f-string joins.                                              *)
(***************************************************************************)
Returned(value, calls) ==
    [status |-> "returned", value |-> value, error |-> << >>, calls |-> calls]

Raised(message, calls) ==
    [status |-> "raised", value |-> None, error |-> message, calls |-> calls]

Contains(message, text) == \E n \in 1 .. Len(message) : message[n] = text

(***************************************************************************)
(* AIService.extract_structured_cv_data                                    *)
(***************************************************************************)
\* variant: an unparseable answer is repaired into an empty structure
extract_structured_cv_data_Repairs(outcome) ==
    IF outcome.kind = "error"
    THEN Raised(<<"Failed to extract CV data: ", outcome.error>>, 1)
    ELSE IF outcome.kind = "no_content"
    THEN Raised(<<"Failed to extract CV data: ", AttributeError>>, 1)
    ELSE LET parsed == JsonLoads(StripFences(Strip(outcome.content)))
         IN  IF parsed.ok THEN Returned(parsed.value, 1)
             ELSE Returned([personal |-> [name |-> ""]], 1)

\* variant: a failed generation call is issued a second time
extract_structured_cv_data_Retries(outcome) ==
    IF outcome.kind = "error"
    THEN Raised(<<"Failed to extract CV data: ", outcome.error>>, 2)
    ELSE IF outcome.kind = "no_content"
    THEN Raised(<<"Failed to extract CV data: ", AttributeError>>, 1)
    ELSE LET parsed == JsonLoads(StripFences(Strip(outcome.content)))
         IN  IF parsed.ok THEN Returned(parsed.value, 1)
             ELSE Raised(<<"Failed to extract CV data: ", JSONDecodeError>>, 1)


extract_structured_cv_data(outcome) ==
    IF outcome.kind = "error"
    THEN Raised(<<"Failed to extract CV data: ", outcome.error>>, 1)
    ELSE IF outcome.kind = "no_content"
    THEN Raised(<<"Failed to extract CV data: ", AttributeError>>, 1)
    ELSE LET parsed == JsonLoads(StripFences(Strip(outcome.content)))
         IN  IF parsed.ok THEN Returned(parsed.value, 1)
             ELSE Raised(<<"Failed to extract CV data: ", JSONDecodeError>>, 1)

(***************************************************************************)
(* AIService.evaluate_with_persona                                         *)
(***************************************************************************)
\* variant: a provider failure is wrapped and re-raised, as the committee does
evaluate_with_persona_Reraises(outcome) ==
    IF outcome.kind = "error"
    THEN Raised(<<"Failed to evaluate CV: ", outcome.error>>, 1)
    ELSE IF outcome.kind = "no_content"
    THEN Returned([score |-> 0, strengths |-> "Error in evaluation",
                   improvements |-> "Unable to evaluate", recommendation |-> "No",
                   reasoning |-> <<"Error: ", AttributeError>>], 1)
    ELSE LET content == Strip(outcome.content)
             parsed == JsonLoads(content)
         IN  IF parsed.ok THEN Returned(parsed.value, 1)
             ELSE Returned([score |-> 7, strengths |-> "Evaluation completed",
                            improvements |-> "See detailed feedback",
                            recommendation |-> "Maybe", reasoning |-> content], 1)

\* variant: the degraded evaluation does not quote the error
evaluate_with_persona_DropsError(outcome) ==
    IF outcome.kind = "error" \/ outcome.kind = "no_content"
    THEN Returned([score |-> 0, strengths |-> "Error in evaluation",
                   improvements |-> "Unable to evaluate", recommendation |-> "No",
                   reasoning |-> <<"Error: ">>], 1)
    ELSE LET content == Strip(outcome.content)
             parsed == JsonLoads(content)
         IN  IF parsed.ok THEN Returned(parsed.value, 1)
             ELSE Returned([score |-> 7, strengths |-> "Evaluation completed",
                            improvements |-> "See detailed feedback",
                            recommendation |-> "Maybe", reasoning |-> content], 1)


evaluate_with_persona(outcome) ==
    IF outcome.kind = "error"
    THEN Returned([score |-> 0, strengths |-> "Error in evaluation",
                   improvements |-> "Unable to evaluate", recommendation |-> "No",
                   reasoning |-> <<"Error: ", outcome.error>>], 1)
    ELSE IF outcome.kind = "no_content"
    THEN Returned([score |-> 0, strengths |-> "Error in evaluation",
                   improvements |-> "Unable to evaluate", recommendation |-> "No",
                   reasoning |-> <<"Error: ", AttributeError>>], 1)
    ELSE LET content == Strip(outcome.content)
             parsed == JsonLoads(content)
         IN  IF parsed.ok THEN Returned(parsed.value, 1)
             ELSE Returned([score |-> 7, strengths |-> "Evaluation completed",
                            improvements |-> "See detailed feedback",
                            recommendation |-> "Maybe", reasoning |-> content], 1)

(***************************************************************************)
(* AIService.evaluate_cv_with_committee                                    *)
(***************************************************************************)
personas == <<"Technical Recruiter", "HR Manager", "Hiring Manager">>

\* the for loop from persona number n on; outcomes[n] is what the n-th
\* generation call does
RECURSIVE CommitteeLoop(_, _, _)
CommitteeLoop(outcomes, n, evaluations) ==
    IF n > Len(personas) THEN Returned(evaluations, n - 1)
    ELSE IF outcomes[n].kind = "error"
    THEN Raised(<<"Failed to evaluate CV: ", outcomes[n].error>>, n)
    ELSE CommitteeLoop(outcomes, n + 1,
                       [name \in DOMAIN evaluations \cup {personas[n]} |->
                           IF name = personas[n]
                           THEN IF outcomes[n].kind = "no_content" THEN <<None>>
                                ELSE outcomes[n].content
                           ELSE evaluations[name]])

\* variant: a failed call leaves a degraded entry and the evaluation returns
evaluate_cv_with_committee_Isolates(outcomes) ==
    Returned([name \in {personas[n] : n \in 1 .. Len(personas)} |->
                 LET n == CHOOSE m \in 1 .. Len(personas) : personas[m] = name
                 IN  IF outcomes[n].kind = "response" THEN outcomes[n].content
                     ELSE <<None>>],
             Len(personas))

evaluate_cv_with_committee(outcomes) == CommitteeLoop(outcomes, 1, << >>)

(***************************************************************************)
(* AIService.rephrase_cv_section                                           *)
(***************************************************************************)
\* variant: the raised error does not carry the provider's text
rephrase_cv_section_GenericError(outcome) ==
    IF outcome.kind = "error"
    THEN Raised(<<"Failed to rephrase CV section">>, 1)
    ELSE IF outcome.kind = "no_content"
    THEN Raised(<<"Failed to rephrase CV section: ", AttributeError>>, 1)
    ELSE Returned(Strip(outcome.content), 1)


rephrase_cv_section(outcome) ==
    IF outcome.kind = "error"
    THEN Raised(<<"Failed to rephrase CV section: ", outcome.error>>, 1)
    ELSE IF outcome.kind = "no_content"
    THEN Raised(<<"Failed to rephrase CV section: ", AttributeError>>, 1)
    ELSE Returned(Strip(outcome.content), 1)

(***************************************************************************)
(* AIService.recommend_template and its heuristic signals.  A role title   *)
(* is a sequence of words; NullRole is a job whose role is null.           *)
(***************************************************************************)
NullRole == <<"<null>">>

Titles == {<<"Senior", "Developer">>, <<"junior", "analyst">>, <<"sales", "manager">>}

Experiences == UNION {[1 .. n -> Titles \cup {NullRole}] : n \in 0 .. MaxExperience}

\* str.lower() on the words of the titles
Lower(word) ==
    CASE word = "Senior" -> "senior"
      [] word = "Developer" -> "developer"
      [] OTHER -> word

\* the words of ' '.join(titles) / of one lower-cased role; a keyword is `in`
\* the string exactly when it is one of these words
Words(titles) == {Lower(titles[n][m]) : n \in 1 .. Len(titles), m \in 1 .. 2}

HasNullRole(experience) == \E n \in 1 .. Len(experience) : experience[n] = NullRole

Value(v) == [raises |-> FALSE, value |-> v]

\* job.get('role', '').lower() on a null role
RoleError == [raises |-> TRUE, value |-> FALSE]

_analyze_career_progression(experience) ==
    IF Len(experience) < 2 THEN Value(TRUE)
    ELSE IF HasNullRole(experience) THEN RoleError
    ELSE LET progression_keywords ==
                 {"senior", "lead", "manager", "director", "principal", "architect"}
             junior_keywords == {"junior", "associate", "assistant", "intern", "trainee"}
             has_senior_roles == progression_keywords \cap Words(experience) # {}
             has_junior_roles == junior_keywords \cap Words(experience) # {}
         IN  Value(has_senior_roles /\ has_junior_roles)

\* variant: the signal is the bare length test
_detect_employment_gaps_FewerThanThree(experience) == Value(Len(experience) < 3)

_detect_employment_gaps(experience) ==
    IF Len(experience) < 2 THEN Value(FALSE) ELSE Value(Len(experience) < 3)

\* the if / elif chain over one role
RoleKeyword(role) ==
    LET w == Words(<<role>>)
    IN  IF w \cap {"developer", "engineer"} # {} THEN {"tech"}
        ELSE IF w \cap {"manager", "director"} # {} THEN {"management"}
        ELSE IF w \cap {"analyst", "consultant"} # {} THEN {"analyst"}
        ELSE IF w \cap {"sales", "marketing"} # {} THEN {"business"}
        ELSE {}

_detect_career_change(experience) ==
    IF Len(experience) < 2 THEN Value(FALSE)
    ELSE IF HasNullRole(experience) THEN RoleError
    ELSE LET role_keywords == UNION {RoleKeyword(experience[n]) : n \in 1 .. Len(experience)}
         IN  Value(Cardinality(role_keywords) > 1)

DefaultRecommendation ==
    [recommended_template |-> "combination", confidence_score |-> 50,
     reasoning |-> "Unable to analyze CV data properly.",
     format_explanation |-> "Combines skills emphasis with chronological work history",
     alternatives |-> <<[template |-> "reverse-chronological"], [template |-> "functional"]>>]

\* variant: only provider failures fall back, a parse failure propagates
recommend_template_Propagates(experience, outcome) ==
    LET has_linear_career == _analyze_career_progression(experience)
        has_employment_gaps == _detect_employment_gaps(experience)
        is_career_changer == _detect_career_change(experience)
    IN  IF has_linear_career.raises \/ has_employment_gaps.raises \/ is_career_changer.raises
        THEN Returned(DefaultRecommendation, 0)
        ELSE IF outcome.kind # "response" THEN Returned(DefaultRecommendation, 1)
        ELSE LET parsed == JsonLoads(StripFences(Strip(outcome.content)))
             IN  IF parsed.ok THEN Returned(parsed.value, 1)
                 ELSE Raised(<<"Failed to recommend template: ", JSONDecodeError>>, 1)


recommend_template(experience, outcome) ==
    LET has_linear_career == _analyze_career_progression(experience)
        has_employment_gaps == _detect_employment_gaps(experience)
        is_career_changer == _detect_career_change(experience)
    IN  IF has_linear_career.raises \/ has_employment_gaps.raises \/ is_career_changer.raises
        THEN Returned(DefaultRecommendation, 0)
        ELSE IF outcome.kind # "response" THEN Returned(DefaultRecommendation, 1)
        ELSE LET parsed == JsonLoads(StripFences(Strip(outcome.content)))
             IN  IF parsed.ok THEN Returned(parsed.value, 1)
                 ELSE Returned(DefaultRecommendation, 1)

(***************************************************************************)
(* The AIService calls as steps: a call is served in one step (the methods *)
(* never await), then its result is handed back to the caller.             *)
(***************************************************************************)
Idle == [pc |-> "idle"]

Served(op, input, result) ==
    [pc |-> "done", op |-> op, input |-> input, status |-> result.status,
     value |-> result.value, error |-> result.error, calls |-> result.calls]

ExtractStructuredCvData ==
    /\ ai.pc = "idle"
    /\ \E outcome \in Outcomes :
          ai' = Served("extract_structured_cv_data", <<outcome>>,
                       extract_structured_cv_data(outcome))
    /\ UNCHANGED <<storeVars, callerVars>>

EvaluateWithPersona ==
    /\ ai.pc = "idle"
    /\ \E outcome \in Outcomes :
          ai' = Served("evaluate_with_persona", <<outcome>>, evaluate_with_persona(outcome))
    /\ UNCHANGED <<storeVars, callerVars>>

\* what the three generation calls of one committee evaluation do
CommitteeOutcomes ==
    [1 .. Len(personas) ->
        {o \in Outcomes : o.content \in {<< >>, <<"prose">>, <<"{evaluation}">>}}]

EvaluateCvWithCommittee ==
    /\ ai.pc = "idle"
    /\ \E outcomes \in CommitteeOutcomes :
          ai' = Served("evaluate_cv_with_committee", outcomes,
                       evaluate_cv_with_committee(outcomes))
    /\ UNCHANGED <<storeVars, callerVars>>

RephraseCvSection ==
    /\ ai.pc = "idle"
    /\ \E outcome \in Outcomes :
          ai' = Served("rephrase_cv_section", <<outcome>>, rephrase_cv_section(outcome))
    /\ UNCHANGED <<storeVars, callerVars>>

RecommendTemplate ==
    /\ ai.pc = "idle"
    /\ \E experience \in Experiences, outcome \in Outcomes :
          ai' = Served("recommend_template", <<outcome, experience>>,
                       recommend_template(experience, outcome))
    /\ UNCHANGED <<storeVars, callerVars>>

\* the route hands the result (or the HTTP 500 made from the error) back
RouteResponds ==
    /\ ai.pc = "done"
    /\ ai' = Idle
    /\ UNCHANGED <<storeVars, callerVars>>

NextAI ==
    \/ ExtractStructuredCvData
    \/ EvaluateWithPersona
    \/ EvaluateCvWithCommittee
    \/ RephraseCvSection
    \/ RecommendTemplate
    \/ RouteResponds

(***************************************************************************)
(* Initial state: a service just constructed over an empty index           *)
(***************************************************************************)
\* to_embed: the texts the call has to embed; upserted: the list handed to
\* index.upsert; replaced: the ids that held another vector before the call
NoCall ==
    [op |-> "none", status |-> "none", error |-> None, docs |-> {}, embed_calls |-> 0,
     indexed |-> {}, to_embed |-> 0, upserted |-> << >>, replaced |-> {}]

\* no call of _split_text on its own is under way
NoSplit ==
    [pc |-> "idle", text |-> << >>, chunk_size |-> DefaultChunkSize,
     chunk_overlap |-> DefaultChunkOverlap, result |-> [returns |-> FALSE, chunks |-> << >>]]

Sessions == {1, 2}

\* a caller that has not started its clear/index/retrieve sequence
NoSession == [pc |-> "idle", doc |-> << >>, docs |-> {}]

\* no POST /cv/tailor request has been answered
\* valid: the request passed validation; error: the exception that ended the
\* handler; steps: the vector store and generation calls the handler made, in
\* order; failed_call: the one of them that raised; keys: the keys of the body
\* evaluation: what evaluate_cv_complete is set to do if this request calls it
NoResponse ==
    [status_code |-> 0, detail |-> None, valid |-> FALSE, error |-> None,
     steps |-> << >>, failed_call |-> None, keys |-> {},
     evaluation |-> [kind |-> "none", error |-> None]]

Init ==
    /\ index_ready \in BOOLEAN
    /\ index = << >>
    /\ stale = {}
    /\ phase = "other"
    /\ vs = NoCall
    /\ ai = Idle
    /\ split = NoSplit
    /\ sess = [r \in Sessions |-> NoSession]
    /\ tailor = NoResponse

(***************************************************************************)
(* VectorstoreService.add_documents(texts) (metadata left at its default)  *)
(***************************************************************************)
\* an add_documents that splits and embeds before it looks at the index
AddUninitialized_EmbedsFirst ==
    /\ ~index_ready
    /\ vs' = [NoCall EXCEPT !.op = "add_documents", !.status = "raised",
                            !.error = "Pinecone index not initialized",
                            !.embed_calls = 1]
    /\ UNCHANGED <<index_ready, index, stale, phase, ai, callerVars>>

AddUninitialized ==
    /\ ~index_ready
    /\ vs' = [NoCall EXCEPT !.op = "add_documents", !.status = "raised",
                            !.error = "Pinecone index not initialized"]
    /\ UNCHANGED <<index_ready, index, stale, phase, ai, callerVars>>

\* an add_documents that stores the vectors embedded before the failure
AddEmbeddingFails_KeepsPrefix(built) ==
    /\ index_ready
    /\ \E fail \in 1 .. Len(built.vectors), err \in EmbeddingErrors :
          /\ vs' = [NoCall EXCEPT !.op = "add_documents", !.status = "raised",
                                  !.error = err, !.embed_calls = fail,
                                  !.to_embed = Len(built.vectors)]
          /\ index' = Upsert(index, SubSeq(built.vectors, 1, fail - 1))
    /\ UNCHANGED <<index_ready, stale, phase, ai, callerVars>>

\* an add_documents that asks once more for the embedding that failed
AddEmbeddingFails_Retries(built) ==
    /\ index_ready
    /\ \E fail \in 1 .. Len(built.vectors), err \in EmbeddingErrors :
          vs' = [NoCall EXCEPT !.op = "add_documents", !.status = "raised",
                               !.error = err, !.embed_calls = fail + 1,
                               !.to_embed = Len(built.vectors)]
    /\ UNCHANGED <<index_ready, index, stale, phase, ai, callerVars>>

\* the embedding call number `fail` raises; the loop stops there
AddEmbeddingFails(built) ==
    /\ index_ready
    /\ \E fail \in 1 .. Len(built.vectors), err \in EmbeddingErrors :
          vs' = [NoCall EXCEPT !.op = "add_documents", !.status = "raised",
                               !.error = err, !.embed_calls = fail,
                               !.to_embed = Len(built.vectors)]
    /\ UNCHANGED <<index_ready, index, stale, phase, ai, callerVars>>

\* a text whose split never returns: the call never completes
AddHangs(built) ==
    /\ index_ready
    /\ built.hung
    /\ vs' = [NoCall EXCEPT !.op = "add_documents", !.status = "hung",
                            !.embed_calls = Len(built.vectors),
                            !.to_embed = Len(built.vectors)]
    /\ UNCHANGED <<index_ready, index, stale, phase, ai, callerVars>>

\* the ids of `vectors` under which the index holds a different vector
Replaced(idx, vectors) ==
    {vectors[n].id : n \in {m \in 1 .. Len(vectors) :
                               /\ vectors[m].id \in DOMAIN idx
                               /\ idx[vectors[m].id] # vectors[m]}}

AddUpserts(built) ==
    /\ index_ready
    /\ ~built.hung
    /\ index' = Upsert(index, built.vectors)
    /\ stale' = stale \ Ids(built.vectors)
    /\ vs' = [NoCall EXCEPT !.op = "add_documents", !.status = "returned",
                            !.embed_calls = Len(built.vectors),
                            !.to_embed = Len(built.vectors),
                            !.indexed = Ids(built.vectors),
                            !.upserted = built.vectors,
                            !.replaced = Replaced(index, built.vectors)]
    /\ phase' = IF phase = "cleared" THEN "reindexed" ELSE "other"
    /\ UNCHANGED <<index_ready, ai, callerVars>>

add_documents ==
    /\ vs.status # "hung"
    /\ \E texts \in TextLists :
          LET built == BuildVectors(texts, 0, << >>)
          IN  \/ AddUninitialized
              \/ AddEmbeddingFails(built)
              \/ AddHangs(built)
              \/ AddUpserts(built)

(***************************************************************************)
(* VectorstoreService.retrieve_documents(query, k)                         *)
(***************************************************************************)
\* what index.query may answer: similarity scores are the provider's, so any
\* min(k, size) stored vectors can be the top k
TopK(idx, k) == {m \in SUBSET DOMAIN idx : Cardinality(m) = Min(k, Cardinality(DOMAIN idx))}

RetrievedDoc(idx, id) ==
    [id |-> id, text |-> idx[id].metadata.text, metadata |-> idx[id].metadata]

retrieve_documents ==
    /\ vs.status # "hung"
    /\ \E query \in Queries, k \in {1, DefaultK} :
          \/ /\ ~index_ready
             /\ vs' = [NoCall EXCEPT !.op = "retrieve_documents", !.status = "raised",
                                     !.error = "Pinecone index not initialized"]
          \/ /\ index_ready
             /\ \E err \in EmbeddingErrors :
                   vs' = [NoCall EXCEPT !.op = "retrieve_documents", !.status = "raised",
                                        !.error = err, !.embed_calls = 1,
                                        !.to_embed = 1]
          \/ /\ index_ready
             /\ \E matches \in TopK(index, k) :
                   vs' = [NoCall EXCEPT !.op = "retrieve_documents", !.status = "returned",
                                        !.embed_calls = 1, !.to_embed = 1,
                                        !.docs = {RetrievedDoc(index, id) : id \in matches}]
    /\ UNCHANGED <<index_ready, index, stale, phase, ai, callerVars>>

(***************************************************************************)
(* VectorstoreService.clear_vectorstore                                    *)
(***************************************************************************)
clear_vectorstore ==
    /\ vs.status # "hung"
    /\ vs' = [NoCall EXCEPT !.op = "clear_vectorstore", !.status = "returned"]
    /\ phase' = "cleared"
    /\ stale' = DOMAIN index
    /\ UNCHANGED <<index_ready, index, ai, callerVars>>

(***************************************************************************)
(* POST /cv/tailor (routes/cv_routes.py, tailor_cv) with the validators of  *)
(* utils/security.py.  The request texts of the model hold none of the      *)
(* patterns the sanitiser deletes, so it truncates and strips.              *)
(***************************************************************************)
sanitize_user_input(text, max_length) ==
    IF text = << >> THEN << >> ELSE Strip(Slice(text, 0, max_length))

Rejected(detail) == [ok |-> FALSE, detail |-> detail, value |-> << >>]

Accepted(value) == [ok |-> TRUE, detail |-> None, value |-> value]

validate_job_description(job_description) ==
    IF job_description = << >> \/ Strip(job_description) = << >>
    THEN Rejected("Job description is required")
    ELSE LET sanitized == sanitize_user_input(job_description, MaxJobDescriptionLength)
         IN  IF Len(sanitized) < MinJobDescriptionLength
             THEN Rejected("Job description must be at least 10 characters long")
             ELSE Accepted(sanitized)

validate_cv_text(cv_text) ==
    IF cv_text = << >> \/ Strip(cv_text) = << >>
    THEN Rejected("CV text is required")
    ELSE LET sanitized == sanitize_user_input(cv_text, MaxCvTextLength)
         IN  IF Len(sanitized) < MinCvTextLength
             THEN Rejected("CV text must be at least 50 characters long")
             ELSE Accepted(sanitized)

JobDescriptions ==
    {<< >>, <<" ">>, Rep("j", MinJobDescriptionLength - 1) \o <<" ">>,
     Rep("j", MinJobDescriptionLength)}

CvTexts ==
    {<< >>, <<"\n">>, <<" ">> \o Rep("c", MinCvTextLength - 1), Rep("c", MinCvTextLength)}

TailorRequests ==
    {[job_description |-> j, user_cv_text |-> c] : j \in JobDescriptions, c \in CvTexts}

\* evaluation_service.evaluate_cv_complete: one fused generation call, which
\* returns an evaluation or raises
EvaluationErrors == {"Evaluation failed"}

EvaluationOutcomes ==
    {[kind |-> "returns", error |-> None]}
        \cup {[kind |-> "raises", error |-> e] : e \in EvaluationErrors}

\* the methods VectorstoreService defines
VectorstoreMethods ==
    {"__init__", "_initialize_components", "_get_embedding", "_split_text",
     "add_documents", "retrieve_documents", "clear_vectorstore"}

\* vectorstore_service.<name> for a name the class does not define
GetAttr(name) ==
    [ok |-> name \in VectorstoreMethods,
     error |-> IF name \in VectorstoreMethods THEN None
               ELSE "'VectorstoreService' object has no attribute '" \o name \o "'"]

\* The handler up to its first statement that raises.  Lines 38-53 stand
\* outside the try block, so an exception raised there is not turned into
\* HTTPException(500, detail=str(e)): the framework answers 500.
tailor_cv ==
    /\ \E request \in TailorRequests, evaluation \in EvaluationOutcomes :
          LET jd == validate_job_description(request.job_description)
              cv == validate_cv_text(request.user_cv_text)
              create_documents == GetAttr("create_documents")
          IN  IF ~jd.ok
              THEN tailor' = [NoResponse EXCEPT !.status_code = 400, !.detail = jd.detail]
              ELSE IF ~cv.ok
              THEN tailor' = [NoResponse EXCEPT !.status_code = 400, !.detail = cv.detail]
              ELSE \* line 39: the attribute lookup raises AttributeError
                   tailor' = [NoResponse EXCEPT !.status_code = 500, !.valid = TRUE,
                                                !.detail = "Internal Server Error",
                                                !.error = create_documents.error,
                                                !.evaluation = evaluation]
    /\ UNCHANGED <<storeVars, ai, split, sess>>

NextRoutes == tailor_cv \/ NextAI

SpecRoutes == Init /\ [][NextRoutes]_vars

(***************************************************************************)
(* Two callers of the service, each a process with its own                  *)
(* VectorstoreService attached to the one external index.  Each performs   *)
(* clear_vectorstore(), add_documents([own document]),                      *)
(* retrieve_documents(query) in this order; a method call is one step, as   *)
(* add_documents changes the index by one upsert call and                   *)
(* retrieve_documents reads it by one query call.                           *)
(***************************************************************************)
\* the documents of each caller (told apart by their letter)
OwnDocs(r) == IF r = 1 THEN {DocA, DocC} ELSE {DocB}

\* what the loop of add_documents builds for each of these documents
SessionVectors ==
    [doc \in UNION {OwnDocs(r) : r \in Sessions} |-> BuildVectors(<<doc>>, 0, << >>)]

\* the caller is about to serve a request (its first, or the one after an
\* answered or failed one)
Ready(r) == sess[r].pc \in {"idle", "done", "failed"}

\* a clear_vectorstore that waits while another caller is between its clear
\* and its retrieve
SessionClear_Locked(r) ==
    /\ Ready(r)
    /\ \A s \in Sessions \ {r} : sess[s].pc \notin {"cleared", "indexed"}
    /\ \E doc \in OwnDocs(r) :
          sess' = [sess EXCEPT ![r] = [pc |-> "cleared", doc |-> doc, docs |-> {}]]
    /\ UNCHANGED <<storeVars, ai, split, tailor>>

\* clear_vectorstore(): returns without touching the index, initialised or not
SessionClear(r) ==
    /\ Ready(r)
    /\ \E doc \in OwnDocs(r) :
          sess' = [sess EXCEPT ![r] = [pc |-> "cleared", doc |-> doc, docs |-> {}]]
    /\ UNCHANGED <<storeVars, ai, split, tailor>>

\* add_documents([doc])
SessionIndex(r) ==
    /\ sess[r].pc = "cleared"
    /\ LET built == SessionVectors[sess[r].doc]
       IN  \/ /\ ~index_ready
              /\ sess' = [sess EXCEPT ![r].pc = "failed"]
              /\ UNCHANGED index
           \/ /\ index_ready
              /\ \E fail \in 1 .. Len(built.vectors), err \in EmbeddingErrors :
                    sess' = [sess EXCEPT ![r].pc = "failed"]
              /\ UNCHANGED index
           \/ /\ index_ready
              /\ ~built.hung
              /\ index' = Upsert(index, built.vectors)
              /\ sess' = [sess EXCEPT ![r].pc = "indexed"]
    /\ UNCHANGED <<index_ready, stale, phase, vs, ai, split, tailor>>

\* retrieve_documents(query) with the default k
SessionRetrieve(r) ==
    /\ sess[r].pc = "indexed"
    /\ \E query \in Queries :
          \/ \E err \in EmbeddingErrors : sess' = [sess EXCEPT ![r].pc = "failed"]
          \/ \E matches \in TopK(index, DefaultK) :
                sess' = [sess EXCEPT ![r].pc = "done",
                                     ![r].docs = {RetrievedDoc(index, id) : id \in matches}]
    /\ UNCHANGED <<storeVars, ai, split, tailor>>

NextSessions ==
    \E r \in Sessions : SessionClear(r) \/ SessionIndex(r) \/ SessionRetrieve(r)

SpecSessions == Init /\ [][NextSessions]_vars

(***************************************************************************)
(* _split_text called on its own: the arguments are drawn from small sets  *)
(* (texts over a letter, a sentence terminator and a newline, which is      *)
(* also whitespace), then the function is applied.                          *)
(***************************************************************************)
Alphabet == {"a", ".", "\n"}

Texts == UNION {[1 .. n -> Alphabet] : n \in 0 .. MaxTextLen}

ChunkSizes == {3, 5}

ChunkOverlaps == {0, 1, 2, 5}

InitSplit ==
    /\ index_ready = FALSE
    /\ index = << >>
    /\ stale = {}
    /\ phase = "other"
    /\ vs = NoCall
    /\ ai = Idle
    /\ sess = [r \in Sessions |-> NoSession]
    /\ tailor = NoResponse
    /\ \E text \in Texts, chunk_size \in ChunkSizes, chunk_overlap \in ChunkOverlaps :
          split = [NoSplit EXCEPT !.pc = "called", !.text = text,
                                  !.chunk_size = chunk_size,
                                  !.chunk_overlap = chunk_overlap]

SplitText ==
    /\ split.pc = "called"
    /\ split' = [split EXCEPT !.pc = "done",
                              !.result = _split_text(split.text, split.chunk_size,
                                                     split.chunk_overlap)]
    /\ UNCHANGED <<storeVars, ai, sess, tailor>>

NextSplit == SplitText

SpecSplit == InitSplit /\ [][NextSplit]_vars

NextStore ==
    \/ add_documents
    \/ retrieve_documents
    \/ clear_vectorstore

SpecStore == Init /\ [][NextStore]_vars

SpecAI == Init /\ [][NextAI]_vars

Next == NextStore \/ NextAI

Spec == Init /\ [][Next]_vars

(***************************************************************************)
(* Properties                                                              *)
(***************************************************************************)
ServedOp(op) == ai.pc = "done" /\ ai.op = op

\* the outcome of the (first) generation call of the call being served
FirstOutcome == ai.input[1]

\* the answer is not JSON once surrounding whitespace and fences are removed
Unparseable(outcome) ==
    outcome.kind = "response" /\ ~JsonLoads(StripFences(Strip(outcome.content))).ok

\* the answer is not JSON as it stands (evaluate_with_persona strips no fences)
UnparseableAsIs(outcome) == outcome.kind = "response" /\ ~JsonLoads(Strip(outcome.content)).ok

\* the text by which str(e) describes a failed generation step
ErrorText(outcome) == IF outcome.kind = "error" THEN outcome.error ELSE AttributeError

\* C1: after clear() and then index(docA) on an initialized index, a
\* retrieve never returns a chunk that was stored before the clear.
C1_ClearBeforeReindexIsolation ==
    (phase = "reindexed" /\ vs.op = "retrieve_documents" /\ vs.status = "returned")
        => \A d \in vs.docs : d.id \notin stale

\* C2: when clear() returns on an initialized index, the index holds no vectors.
C2_ClearEmptiesIndex ==
    (index_ready /\ vs.op = "clear_vectorstore" /\ vs.status = "returned")
        => DOMAIN index = {}

ExactlyOneFails(outcomes) ==
    Cardinality({n \in 1 .. Len(outcomes) : outcomes[n].kind = "error"}) = 1

\* C3: when exactly one of the three persona calls fails, the committee
\* evaluation does not raise and returns three results, the failed persona's
\* with score 0 and recommendation No.
C3_PersonaIsolation ==
    (ServedOp("evaluate_cv_with_committee") /\ ExactlyOneFails(ai.input))
        => /\ ai.status = "returned"
           /\ DOMAIN ai.value = {personas[n] : n \in 1 .. Len(personas)}
           /\ \A n \in 1 .. Len(personas) :
                 ai.input[n].kind = "error"
                     => /\ ai.value[personas[n]].score = 0
                        /\ ai.value[personas[n]].recommendation = "No"

\* C4: evaluate_with_persona returns a value and raises nothing, whatever
\* its generation call does (failure, JSON answer, non-JSON answer).
C4_PersonaNeverRaises ==
    ServedOp("evaluate_with_persona") => ai.status = "returned" /\ ai.calls = 1

C4_Witness ==
    /\ ServedOp("evaluate_with_persona")
    /\ FirstOutcome.kind = "error"
    /\ ai.status = "returned"

\* C5 as stated: on a provider failure or an answer that is not JSON, the
\* evaluation has score 0, recommendation No and quotes the error.
C5_DegradedOnAnyFailure ==
    (ServedOp("evaluate_with_persona")
        /\ (FirstOutcome.kind # "response" \/ UnparseableAsIs(FirstOutcome)))
        => /\ ai.value.score = 0
           /\ ai.value.recommendation = "No"
           /\ Contains(ai.value.reasoning,
                       IF FirstOutcome.kind = "response" THEN JSONDecodeError
                       ELSE ErrorText(FirstOutcome))

\* C5 amended: when the generation call fails (or its answer has no content)
\* the evaluation has score 0, recommendation No and a reasoning that quotes
\* the error; when the answer is not JSON the evaluation has score 7,
\* recommendation Maybe and the raw answer as its reasoning.
C5_DegradedOnProviderFailure ==
    ServedOp("evaluate_with_persona")
        => /\ FirstOutcome.kind # "response"
                => /\ ai.value.score = 0
                   /\ ai.value.recommendation = "No"
                   /\ Contains(ai.value.reasoning, ErrorText(FirstOutcome))
           /\ UnparseableAsIs(FirstOutcome)
                => /\ ai.value.score = 7
                   /\ ai.value.recommendation = "Maybe"
                   /\ ai.value.reasoning = Strip(FirstOutcome.content)

C5_Witness ==
    /\ ServedOp("evaluate_with_persona")
    /\ UnparseableAsIs(FirstOutcome)
    /\ FirstOutcome.content = <<FenceJson, "{evaluation}", Fence>>
    /\ ai.value.score = 7

\* C6: if the generation call of recommend_template fails, or its answer is
\* not JSON, recommend_template returns the default: template "combination",
\* confidence 50.
C6_TemplateFallback ==
    (ServedOp("recommend_template") /\ ai.calls = 1
        /\ (FirstOutcome.kind # "response" \/ Unparseable(FirstOutcome)))
        => /\ ai.status = "returned"
           /\ ai.value.recommended_template = "combination"
           /\ ai.value.confidence_score = 50

C6_Witness ==
    /\ ServedOp("recommend_template")
    /\ ai.calls = 1
    /\ Unparseable(FirstOutcome)
    /\ ai.status = "returned"
    /\ ai.value = DefaultRecommendation

SchemaKeys ==
    {"personal", "professional_summary", "experience", "education", "projects", "skills",
     "licenses_certifications"}

\* C7: every value extract returns carries every top-level key of the schema.
C7_SchemaDefaulting ==
    (ServedOp("extract_structured_cv_data") /\ ai.status = "returned")
        => SchemaKeys \subseteq DOMAIN ai.value

\* C8: an answer that is not JSON after fence stripping makes extract fail;
\* nothing is returned for it.
C8_ParseFailureIsFatal ==
    (ServedOp("extract_structured_cv_data") /\ Unparseable(FirstOutcome))
        => ai.status = "raised"

C8_Witness ==
    /\ ServedOp("extract_structured_cv_data")
    /\ FirstOutcome.content = <<Fence, "{cv_full}", Fence>>
    /\ ai.status = "raised"
    /\ Contains(ai.error, JSONDecodeError)

\* C9: a provider failure inside extract_structured_cv_data or
\* rephrase_cv_section is raised to the caller with the provider's error text
\* in the message.
C9_ProviderErrorSurfaces ==
    ((ServedOp("extract_structured_cv_data") \/ ServedOp("rephrase_cv_section"))
        /\ FirstOutcome.kind = "error")
        => ai.status = "raised" /\ Contains(ai.error, FirstOutcome.error)

C9_Witness ==
    /\ ServedOp("rephrase_cv_section")
    /\ FirstOutcome.kind = "error"
    /\ ai.status = "raised"
    /\ ai.error = <<"Failed to rephrase CV section: ", "API Error">>

\* C10: extract_structured_cv_data, rephrase_cv_section and
\* recommend_template issue at most one generation call per invocation, also
\* when that call fails.
C10_NoRetry ==
    (ServedOp("extract_structured_cv_data") \/ ServedOp("rephrase_cv_section")
        \/ ServedOp("recommend_template"))
        => ai.calls <= 1

C10_Witness ==
    /\ ServedOp("extract_structured_cv_data")
    /\ FirstOutcome.kind = "error"
    /\ ai.status = "raised"
    /\ ai.calls = 1


\* the call of _split_text under check has been evaluated
SplitDone == split.pc = "done"

\* its text is longer than one chunk, so the window loop runs
LongText == Len(split.text) > split.chunk_size

\* C11: whenever _split_text is called with chunk_overlap < chunk_size, the
\* window loop ends and the call returns, whatever the text.
C11_SplitterTerminates ==
    (SplitDone /\ split.chunk_overlap < split.chunk_size) => split.result.returns

\* C12: a call with chunk_overlap >= chunk_size on a text longer than
\* chunk_size does not loop forever (it is answered, by a configuration error).
C12_OverlapGuard ==
    (SplitDone /\ split.chunk_overlap >= split.chunk_size /\ LongText)
        => split.result.returns

\* position p (0-based) of the text lies in an occurrence of chunk c in the text
InChunk(text, c, p) ==
    \E o \in 0 .. (Len(text) - Len(c)) :
        /\ Slice(text, o, o + Len(c)) = c
        /\ o <= p
        /\ p < o + Len(c)

\* C13: when _split_text returns on a text of length L > chunk_size, every
\* position of [0, L) lies in at least one returned chunk.
C13_ChunkingCoverage ==
    (SplitDone /\ LongText /\ split.result.returns)
        => \A p \in 0 .. (Len(split.text) - 1) :
              \E n \in 1 .. Len(split.result.chunks) :
                 InChunk(split.text, split.result.chunks[n], p)

\* C14: on a text no longer than chunk_size, _split_text returns exactly one
\* chunk, equal to the text character for character.
C14_ChunkingRoundTrip ==
    (SplitDone /\ ~LongText)
        => (split.result.returns /\ split.result.chunks = <<split.text>>)

\* a short text with whitespace at both ends came back
C14_Witness ==
    /\ SplitDone
    /\ ~LongText
    /\ Len(split.text) >= 2
    /\ Head(split.text) \in Whitespace
    /\ split.text[Len(split.text)] \in Whitespace
    /\ split.result.chunks = <<split.text>>


\* C15: after add_documents returns, every id it built holds exactly the vector
\* of this call (its metadata text is the chunk just indexed, also where the
\* id held other content before), and no id was built twice in the call.
C15_IdempotentIndexing ==
    (vs.op = "add_documents" /\ vs.status = "returned")
        => /\ \A n \in 1 .. Len(vs.upserted) :
                 /\ vs.upserted[n].id \in DOMAIN index
                 /\ index[vs.upserted[n].id] = vs.upserted[n]
                 /\ index[vs.upserted[n].id].id = vs.upserted[n].id
           /\ \A n, m \in 1 .. Len(vs.upserted) :
                 vs.upserted[n].id = vs.upserted[m].id => n = m

\* an id that held other content was indexed again
C15_Witness ==
    /\ vs.op = "add_documents"
    /\ vs.status = "returned"
    /\ vs.replaced # {}
    /\ \A id \in vs.replaced :
          \E n \in 1 .. Len(vs.upserted) :
             vs.upserted[n].id = id /\ index[id].metadata.text = vs.upserted[n].metadata.text

\* C16: with the index not initialised, add_documents and retrieve_documents
\* raise "Pinecone index not initialized" without any embedding call, return
\* no document and store nothing.
C16_IndexUnavailable ==
    (~index_ready /\ vs.op \in {"add_documents", "retrieve_documents"})
        => /\ vs.status = "raised"
           /\ vs.error = "Pinecone index not initialized"
           /\ vs.embed_calls = 0
           /\ vs.docs = {}
           /\ vs.indexed = {}
           /\ index = << >>

C16_Witness ==
    /\ ~index_ready
    /\ vs.op = "add_documents"
    /\ vs.status = "raised"
    /\ vs.embed_calls = 0

\* C17: with the index not initialised, clear_vectorstore raises instead of
\* returning normally.
C17_ClearFailsUninitialized ==
    (~index_ready /\ vs.op = "clear_vectorstore") => vs.status = "raised"

\* C18: a call in which the embedding provider failed has raised that failure,
\* made no embedding call beyond the texts it had to embed (the failing call
\* is not repeated), returned no documents and stored nothing.
C18_EmbeddingFailureIsFatal ==
    [][(vs' # vs /\ vs'.error \in EmbeddingErrors)
          => /\ vs'.status = "raised"
             /\ vs'.embed_calls >= 1
             /\ vs'.embed_calls <= vs'.to_embed
             /\ vs'.docs = {}
             /\ vs'.indexed = {}
             /\ index' = index]_vars

\* the embedding of the second chunk of an add_documents call failed
C18_Witness ==
    /\ vs.op = "add_documents"
    /\ vs.error \in EmbeddingErrors
    /\ vs.status = "raised"
    /\ vs.embed_calls = 2
    /\ vs.to_embed = 2


\* the chunks add_documents stores for a document
ChunksOf(doc) ==
    LET vectors == SessionVectors[doc].vectors
    IN  {vectors[n].metadata.text : n \in 1 .. Len(vectors)}

\* C19: nothing in the service makes a caller wait for another: whatever the
\* other caller's position, a caller's next call of clear, index or retrieve
\* can be taken, so the calls of two callers interleave freely.
C19_NoCrossRequestLocking ==
    \A r \in Sessions :
        /\ Ready(r) => ENABLED SessionClear(r)
        /\ sess[r].pc = "cleared" => ENABLED SessionIndex(r)
        /\ sess[r].pc = "indexed" => ENABLED SessionRetrieve(r)

\* caller 1 has run its clear, index and retrieve while caller 2 was between
\* its index and its retrieve, and was handed a chunk of caller 2's document
C19_Witness ==
    /\ sess[1].pc = "done"
    /\ sess[2].pc = "indexed"
    /\ \E d \in sess[1].docs :
          /\ d.text \in ChunksOf(sess[2].doc)
          /\ d.text \notin ChunksOf(sess[1].doc)


\* the calls of a tailor request, in the order the handler places them
TailorSteps ==
    <<"clear_vectorstore", "add_documents", "retrieve_documents",
      "extract_structured_cv_data", "evaluate_cv_complete">>

\* C20: a valid tailor request none of whose calls failed has made the calls
\* clear, index, retrieve, extract, evaluateComplete in this order and is
\* answered 200 with the structured data carrying the evaluation under
\* 'analysis'.
C20_TailorPipeline ==
    (tailor.valid /\ tailor.status_code # 0 /\ tailor.failed_call = None)
        => /\ tailor.steps = TailorSteps
           /\ tailor.status_code = 200
           /\ "analysis" \in tailor.keys


C22_NeverShortCircuits ==
    ServedOp("recommend_template") => ai.calls >= 1

PersonaNames == {personas[n] : n \in 1 .. Len(personas)}

\* C23: a committee evaluation issues one generation call for each persona,
\* and a returned result has one entry for each persona name.
C23_OneCallPerPersona ==
    ServedOp("evaluate_cv_with_committee")
        => /\ ai.calls = Len(personas)
           /\ ai.status = "returned" => DOMAIN ai.value = PersonaNames

\* the first generation call of a committee evaluation that fails
FirstFailure(outcomes) ==
    CHOOSE n \in 1 .. Len(outcomes) :
        /\ outcomes[n].kind = "error"
        /\ \A m \in 1 .. (n - 1) : outcomes[m].kind # "error"

\* C24: when a generation call of evaluate_cv_with_committee fails, the
\* operation raises, and the message holds the provider's error text.
C24_CommitteeRaises ==
    (ServedOp("evaluate_cv_with_committee")
        /\ \E n \in 1 .. Len(ai.input) : ai.input[n].kind = "error")
        => /\ ai.status = "raised"
           /\ Contains(ai.error, ai.input[FirstFailure(ai.input)].error)

\* the second call failed after the first had answered
C24_Witness ==
    /\ ServedOp("evaluate_cv_with_committee")
    /\ ai.input[1].kind = "response"
    /\ ai.input[2].kind = "error"
    /\ ai.status = "raised"
    /\ ai.calls = 2

TemplateNames == {"reverse-chronological", "functional", "combination"}

\* C25: every value recommend_template returns names one of the three
\* templates and a confidence score in 0 .. 100.
C25_RecommendationRanges ==
    (ServedOp("recommend_template") /\ ai.status = "returned")
        => /\ {"recommended_template", "confidence_score"} \subseteq DOMAIN ai.value
           /\ ai.value.recommended_template \in TemplateNames
           /\ ai.value.confidence_score \in 0 .. 100

\* the JSON object o between an opening fence (tagged json or bare) and a
\* closing fence
FencedForms(o) ==
    {p \o <<o>> \o t : p \in {<<FenceJson>>, <<FenceJson, "\n">>, <<Fence>>},
                       t \in {<<Fence>>, <<"\n", Fence>>}}

\* C26: for an answer that is a JSON object between code fences,
\* extract_structured_cv_data gives what it gives for the object alone.
C26_FenceStripping ==
    ServedOp("extract_structured_cv_data")
        => \A o \in JsonObjects :
              (FirstOutcome.kind = "response" /\ FirstOutcome.content \in FencedForms(o))
                  => LET bare == extract_structured_cv_data(
                                     [kind |-> "response", error |-> None,
                                      content |-> <<o>>])
                     IN  /\ ai.status = bare.status
                         /\ ai.value = bare.value

\* C27 as stated: the employment-gap signal is true exactly for lists of
\* fewer than 3 entries.
C27_GapsIffFewerThanThree ==
    ServedOp("recommend_template")
        => _detect_employment_gaps(ai.input[2]).value = (Len(ai.input[2]) < 3)

\* C27: the employment-gap signal is true exactly for lists of 2 entries
\* (lists of 0 or 1 entries give false).
C27_GapsIffTwoEntries ==
    ServedOp("recommend_template")
        => /\ ~_detect_employment_gaps(ai.input[2]).raises
           /\ _detect_employment_gaps(ai.input[2]).value = (Len(ai.input[2]) = 2)

\* recommend_template ran on a single-entry list: no gap is signalled
C27_Witness ==
    /\ ServedOp("recommend_template")
    /\ Len(ai.input[2]) = 1
    /\ ~_detect_employment_gaps(ai.input[2]).value
    /\ ai.calls = 1


\* C28: an add_documents call in which an embedding failed leaves the index
\* exactly as it was and hands no vector to upsert.
C28_AllOrNothing ==
    [][(vs'.op = "add_documents" /\ vs'.status = "raised"
            /\ vs'.error \in EmbeddingErrors)
          => /\ index' = index
             /\ vs'.upserted = << >>
             /\ vs'.indexed = {}]_vars

\* the third embedding of a call failed, after two had succeeded, on an index
\* that holds vectors
C28_Witness ==
    /\ vs.op = "add_documents"
    /\ vs.status = "raised"
    /\ vs.error \in EmbeddingErrors
    /\ vs.embed_calls = 3
    /\ index # << >>


\* C30: when _split_text returns on a text longer than chunk_size, each
\* chunk holds at least one and at most chunk_size characters.
C30_ChunkSizes ==
    (SplitDone /\ LongText /\ split.result.returns)
        => \A n \in 1 .. Len(split.result.chunks) :
              /\ Len(split.result.chunks[n]) >= 1
              /\ Len(split.result.chunks[n]) <= split.chunk_size

=============================================================================
